---- MODULE Spec2Model ----
(***************************************************************************)
(* The coupon ledger of src/database.py (DatabaseManager) as a state       *)
(* machine.  The store is the three tables projects / coupons / bans of    *)
(* the SQLite file.  Time is counted in seconds.                           *)
(*                                                                         *)
(* claim_coupon is a coroutine: every "await session.execute(...)" and the *)
(* commit on leaving "async with session.begin()" is a point where other   *)
(* coroutines run, so it is modelled as one action per awaited statement.  *)
(* The engine is sqlite+aiosqlite with the driver's default transaction    *)
(* control: no BEGIN is emitted before a SELECT, so every SELECT reads the *)
(* last committed store and the only transaction of a claim is the         *)
(* BEGIN / UPDATE coupons ... WHERE id = ? / COMMIT of the final flush.    *)
(* No PRAGMA foreign_keys is issued anywhere, so the ON DELETE CASCADE of  *)
(* the schema is not enforced by the engine.                               *)
(***************************************************************************)
EXTENDS Integers, Sequences, FiniteSets, TLC

\* ------------------------------------------------------------------ bounds
MaxProjectId == 2
MaxBanId == 2
MaxOps == 4

\* ------------------------------------------------------- program constants
DefaultCooldown == 168
CacheDuration == 60
KeptBackups == 5
BackupHour == 3
HoursPerDay == 24
SecondsPerHour == 3600
SecondsPerMinute == 60
SecondsPerDay == 86400

\* None / SQL NULL in an integer or timestamp column
Null == -1
\* None / empty string for an optional project name
NoName == ""

\* --------------------------------------------------------------- inputs
Users == {1, 2}
ProjectNames == {"P", "Q"}
BanProjectNames == {"P", "global"}
BanReasons == {"spam", "abuse"}
Codes == {"A", "B"}
Reasons == {"spam"}
CooldownValues == {0, 24}
ExpiryDays == {Null, 1}
DurationHours == {Null, 24}
SettingKeys == {"is_claim_active", "claim_cooldown_hours", "name", "no_such_attr"}
TickSteps == {30, SecondsPerDay}
DaySteps == {SecondsPerDay}

VARIABLES projects, coupons, bans, now, ops, calls, adds, reply,
          banning, stock_cache, fetches,
          project_cache, backups, loops, sent, twin

\* the state of the bot outside the database and the stock cache
host == <<project_cache, backups, loops, sent, twin>>

vars == <<projects, coupons, bans, now, ops, calls, adds, reply,
          banning, stock_cache, fetches, host>>
store == <<projects, coupons, bans>>

\* the coroutines that run claim_coupon
CallIds == {1, 2}

NoProject == [id |-> Null, name |-> NoName, is_claim_active |-> FALSE,
              claim_cooldown_hours |-> 0]
NoCoupon == [id |-> Null, code |-> "", is_claimed |-> FALSE, claimed_by |-> Null,
             claimed_at |-> Null, expiry_date |-> Null, project_id |-> Null]

IdleCall == [pc |-> "idle", user_id |-> Null, project_name |-> NoName,
             current_time |-> Null, project |-> NoProject, coupon |-> NoCoupon,
             status |-> "", reason |-> "", code |-> "", expiry |-> Null,
             hours |-> 0, minutes |-> 0]

\* the coroutines that run add_coupons
AddIds == {1, 2}

\* the locals of an add_coupons call and what it returned
IdleAdd == [pc |-> "idle", project_name |-> NoName, codes |-> <<>>,
            expiry_days |-> Null, project |-> NoProject, new_coupons |-> <<>>,
            expiry_date |-> Null, status |-> "", inserted |-> 0,
            duplicates |-> 0, insertedCodes |-> <<>>]

\* the coroutines that run ban_user
BanIds == {1, 2}

\* the locals of a ban_user call and what it returned
IdleBan == [pc |-> "idle", user_id |-> Null, project_name |-> NoName,
            reason |-> "", duration_hours |-> Null, project_id |-> Null,
            banned_until |-> Null, existing_ban |-> Null, status |-> ""]

\* the coroutines that run get_cached_stock
FetchIds == {1, 2}

\* the locals of a get_cached_stock call and what it returned
\* (read_at: the time at which the stock it holds was read from the store)
IdleFetch == [pc |-> "idle", project_name |-> NoName, current_time |-> Null,
              stock |-> Null, read_at |-> Null]

\* no entry of stock_cache under a name; read_at keeps the time at which
\* the store was read for an entry
NoEntry == [stock |-> Null, timestamp |-> Null, read_at |-> Null]

\* the three tasks.loop jobs of the bot
Jobs == {"update_project_cache", "auto_backup", "cleanup_expired_coupons"}

\* no first run recorded
NoTwin == [phase |-> 0, projects |-> {}, coupons |-> {}, bans |-> {}]

\* the bot before on_ready: project_cache = [], no loop started, an empty
\* backup directory, nothing sent
HostInit ==
    /\ project_cache = {}
    /\ backups = {}
    /\ loops = [j \in Jobs |-> "running"]
    /\ sent = {}
    /\ twin = NoTwin

\* what the last command that ran to completion returned
NoReply == [op |-> "", name |-> NoName, key |-> "", ok |-> FALSE, value |-> Null]

\* ------------------------------------------------------------ helpers
MaxOf(S) == CHOOSE x \in S : \A y \in S : y <= x

\* rowid of the next INSERT into a table without AUTOINCREMENT
NextId(rows) == IF rows = {} THEN 1 ELSE MaxOf({r.id : r \in rows}) + 1

\* select(Project).filter_by(name=...)
ProjectsNamed(name) == {p \in projects : p.name = name}

TypeOK ==
    /\ now \in Nat
    /\ ops \in 0..MaxOps
    /\ \A p \in projects : p.id \in 1..MaxProjectId /\ p.name \in ProjectNames \cup BanProjectNames
    /\ \A c \in coupons : c.code \in Codes /\ c.is_claimed \in BOOLEAN
    /\ \A b \in bans : b.user_id \in Users /\ b.reason \in Reasons \cup BanReasons
    /\ \A i \in CallIds : calls[i].pc \in
          {"idle", "project", "bans", "last_claim", "claimable", "commit", "done"}
    /\ \A i \in AddIds : adds[i].pc \in
          {"idle", "project", "existing", "commit", "done"}
    /\ reply.ok \in BOOLEAN
    /\ \A i \in BanIds : banning[i].pc \in
          {"idle", "project", "existing", "commit", "done"}
    /\ \A i \in FetchIds : fetches[i].pc \in {"idle", "get_stock", "store", "done"}
    /\ DOMAIN stock_cache = ProjectNames

Init ==
    /\ projects = {}
    /\ coupons = {}
    /\ bans = {}
    /\ now = 0
    /\ ops = 0
    /\ calls = [i \in CallIds |-> IdleCall]
    /\ adds = [i \in AddIds |-> IdleAdd]
    /\ reply = NoReply
    /\ banning = [i \in BanIds |-> IdleBan]
    /\ stock_cache = [name \in ProjectNames |-> NoEntry]
    /\ fetches = [i \in FetchIds |-> IdleFetch]
    /\ HostInit


\* ------------------------------------------------ administrative operations
\* a create_project whose INSERT is not held back by UNIQUE(name)
create_project_again(name) ==
    /\ NextId(projects) <= MaxProjectId
    /\ projects' = projects \cup
          {[id |-> NextId(projects), name |-> name, is_claim_active |-> TRUE,
            claim_cooldown_hours |-> DefaultCooldown]}
    /\ UNCHANGED <<coupons, bans, now, calls>>

\* create_project: INSERT; the UNIQUE(name) violation is caught, False returned
create_project(name) ==
    /\ NextId(projects) <= MaxProjectId
    /\ IF ProjectsNamed(name) # {}
         THEN UNCHANGED projects
         ELSE projects' = projects \cup
                {[id |-> NextId(projects), name |-> name, is_claim_active |-> TRUE,
                  claim_cooldown_hours |-> DefaultCooldown]}
    /\ UNCHANGED <<coupons, bans, now, calls>>

\* UPDATE projects SET name = value WHERE name = name runs into UNIQUE(name)
\* when the row exists and another row has the new name
RenameCollides(name, value) ==
    /\ ProjectsNamed(name) # {}
    /\ \E q \in projects : q.name = value /\ q.name # name

\* set_project_setting: hasattr(Project, key) guard, then UPDATE ... WHERE name
set_project_setting(name, key, value) ==
    /\ projects' =
         IF key = "is_claim_active"
           THEN {IF p.name = name THEN [p EXCEPT !.is_claim_active = value] ELSE p
                   : p \in projects}
         ELSE IF key = "claim_cooldown_hours"
           THEN {IF p.name = name THEN [p EXCEPT !.claim_cooldown_hours = value] ELSE p
                   : p \in projects}
         ELSE IF key = "name" /\ ~RenameCollides(name, value)
           THEN {IF p.name = name THEN [p EXCEPT !.name = value] ELSE p
                   : p \in projects}
         ELSE projects
    /\ UNCHANGED <<coupons, bans, now, calls>>

\* delete_project: SELECT by name, then DELETE FROM projects WHERE id = ?.
\* passive_deletes=True leaves the children to the engine, and the engine
\* does not enforce the foreign keys: only the project row goes.
delete_project(name) ==
    /\ projects' = {p \in projects : p.name # name}
    /\ UNCHANGED <<coupons, bans, now, calls>>

\* the codes of the batch that are not yet in the store, in input order
NewCodes(codes) ==
    SelectSeq(codes, LAMBDA c : c \notin {x.code : x \in coupons})

HasRepeat(seq) == \E i, j \in 1..Len(seq) : i < j /\ seq[i] = seq[j]

\* add_coupons: resolve the project, look up existing codes, INSERT the
\* rest in one commit; a repeated new code violates UNIQUE(code) and the
\* whole batch is rolled back
add_coupons(project_name, codes, expiry_days) ==
    /\ LET found == ProjectsNamed(project_name)
           fresh == NewCodes(codes)
           expiry_date == IF expiry_days # Null /\ expiry_days # 0
                            THEN now + expiry_days * SecondsPerDay ELSE Null
           base == NextId(coupons)
       IN  IF found = {} \/ fresh = <<>> \/ HasRepeat(fresh)
             THEN UNCHANGED coupons
             ELSE \E p \in found :
                    coupons' = coupons \cup
                      {[id |-> base + k - 1, code |-> fresh[k], is_claimed |-> FALSE,
                        claimed_by |-> Null, claimed_at |-> Null,
                        expiry_date |-> expiry_date, project_id |-> p.id]
                         : k \in 1..Len(fresh)}
    /\ UNCHANGED <<projects, bans, now, calls>>

\* ---- add_coupons as the coroutine it is, one action per awaited statement
FinishAdd(i, status, inserted, duplicates, insertedCodes) ==
    adds' = [adds EXCEPT ![i].pc = "done", ![i].status = status,
                         ![i].inserted = inserted, ![i].duplicates = duplicates,
                         ![i].insertedCodes = insertedCodes]

\* the call is made: the lowest idle coroutine takes it
add_coupons_begin(i, project_name, codes, expiry_days) ==
    /\ adds[i].pc = "idle"
    /\ \A j \in AddIds : j < i => adds[j].pc # "idle"
    /\ adds' = [adds EXCEPT ![i] = [IdleAdd EXCEPT !.pc = "project",
                                      !.project_name = project_name,
                                      !.codes = codes,
                                      !.expiry_days = expiry_days]]
    /\ UNCHANGED <<projects, coupons, bans, now, calls, reply>>

\* project = await self.get_project(project_name); None is returned without it
add_coupons_project(i) ==
    /\ adds[i].pc = "project"
    /\ IF ProjectsNamed(adds[i].project_name) = {}
         THEN FinishAdd(i, "None", 0, 0, <<>>)
         ELSE \E p \in ProjectsNamed(adds[i].project_name) :
                adds' = [adds EXCEPT ![i].pc = "existing", ![i].project = p]
    /\ UNCHANGED <<projects, coupons, bans, now, calls, reply>>

\* the existing-code SELECT, expiry_date and the new_coupons list; with
\* nothing new the counts are returned without a commit
add_coupons_existing(i) ==
    /\ adds[i].pc = "existing"
    /\ LET a == adds[i]
           fresh == NewCodes(a.codes)
           expiry_date == IF a.expiry_days # Null /\ a.expiry_days # 0
                            THEN now + a.expiry_days * SecondsPerDay ELSE Null
       IN  IF fresh = <<>>
             THEN FinishAdd(i, "OK", 0, Len(a.codes), <<>>)
             ELSE adds' = [adds EXCEPT ![i].pc = "commit",
                                       ![i].new_coupons = fresh,
                                       ![i].expiry_date = expiry_date]
    /\ UNCHANGED <<projects, coupons, bans, now, calls, reply>>

\* a uniqueness check that looks at the batch alone
CodeCollision_in_batch(new_coupons) == HasRepeat(new_coupons)

\* UNIQUE(code): the INSERT of the batch fails when a code of it comes twice
\* or is in the table by now
CodeCollision(new_coupons) ==
    \/ HasRepeat(new_coupons)
    \/ \E k \in 1..Len(new_coupons) : new_coupons[k] \in {c.code : c \in coupons}

\* a commit row by row: the rows that do not collide stay in the table
add_coupons_commit_each(i) ==
    /\ adds[i].pc = "commit"
    /\ LET a == adds[i]
           base == NextId(coupons)
           lands == {k \in 1..Len(a.new_coupons) :
                       /\ a.new_coupons[k] \notin {c.code : c \in coupons}
                       /\ \A j \in 1..(k - 1) : a.new_coupons[j] # a.new_coupons[k]}
       IN  /\ coupons' = coupons \cup
                {[id |-> base + k - 1, code |-> a.new_coupons[k],
                  is_claimed |-> FALSE, claimed_by |-> Null,
                  claimed_at |-> Null, expiry_date |-> a.expiry_date,
                  project_id |-> a.project.id] : k \in lands}
           /\ IF lands # 1..Len(a.new_coupons)
                THEN FinishAdd(i, "IntegrityError", 0, 0, <<>>)
                ELSE FinishAdd(i, "OK", Len(a.new_coupons),
                               Len(a.codes) - Len(a.new_coupons), a.new_coupons)
    /\ UNCHANGED <<projects, bans, now, calls, reply>>

\* session.add_all(new_coupons); await session.commit(): one transaction.
\* An IntegrityError rolls it back and leaves add_coupons as an exception.
add_coupons_commit(i) ==
    /\ adds[i].pc = "commit"
    /\ LET a == adds[i]
           base == NextId(coupons)
       IN  IF CodeCollision(a.new_coupons)
             THEN /\ FinishAdd(i, "IntegrityError", 0, 0, <<>>)
                  /\ UNCHANGED coupons
             ELSE /\ coupons' = coupons \cup
                       {[id |-> base + k - 1, code |-> a.new_coupons[k],
                         is_claimed |-> FALSE, claimed_by |-> Null,
                         claimed_at |-> Null, expiry_date |-> a.expiry_date,
                         project_id |-> a.project.id]
                          : k \in 1..Len(a.new_coupons)}
                  /\ FinishAdd(i, "OK", Len(a.new_coupons),
                               Len(a.codes) - Len(a.new_coupons), a.new_coupons)
    /\ UNCHANGED <<projects, bans, now, calls, reply>>

\* a count over the coupons of every project
get_stock_any_project(project_name) ==
    IF ProjectsNamed(project_name) = {} THEN Null
    ELSE Cardinality({c \in coupons :
                        /\ c.is_claimed = FALSE
                        /\ (c.expiry_date = Null \/ c.expiry_date > now)})

\* get_stock: None for a missing project, else COUNT of the project's
\* coupons with is_claimed = 0 and (expiry_date IS NULL or expiry_date > now)
get_stock(project_name) ==
    IF ProjectsNamed(project_name) = {} THEN Null
    ELSE LET project == CHOOSE p \in projects : p.name = project_name
         IN  Cardinality({c \in coupons :
                            /\ c.project_id = project.id
                            /\ c.is_claimed = FALSE
                            /\ (c.expiry_date = Null \/ c.expiry_date > now)})

\* what the commands hand back to the caller
create_project_reply(name) ==
    [op |-> "create_project", name |-> name, key |-> "",
     ok |-> (ProjectsNamed(name) = {}), value |-> Null]

delete_project_reply(name) ==
    [op |-> "delete_project", name |-> name, key |-> "",
     ok |-> (ProjectsNamed(name) # {}), value |-> Null]

get_stock_reply(name) ==
    [op |-> "get_stock", name |-> name, key |-> "",
     ok |-> (ProjectsNamed(name) # {}), value |-> get_stock(name)]

\* rowcount > 0 of the UPDATE, False for a key Project does not have
set_project_setting_reply(name, key, value) ==
    [op |-> IF key = "name" /\ RenameCollides(name, value)
              THEN "set_project_setting: IntegrityError"
              ELSE "set_project_setting",
     name |-> name, key |-> key,
     ok |-> /\ key \in {"is_claim_active", "claim_cooldown_hours", "name"}
            /\ ProjectsNamed(name) # {}
            /\ ~(key = "name" /\ RenameCollides(name, value)),
     value |-> Null]

\* False for a name that does not resolve and for rowcount = 0
unban_user_reply(user_id, project_name) ==
    [op |-> "unban_user", name |-> project_name, key |-> "",
     ok |-> IF project_name # NoName
              THEN \E p \in ProjectsNamed(project_name), b \in bans :
                      b.user_id = user_id /\ b.project_id = p.id
              ELSE \E b \in bans : b.user_id = user_id /\ b.project_id = Null,
     value |-> user_id]

cleanup_expired_coupons_reply ==
    [op |-> "cleanup_expired_coupons", name |-> NoName, key |-> "", ok |-> TRUE,
     value |-> Cardinality({c \in coupons :
                              c.expiry_date # Null /\ c.expiry_date <= now})]

\* ban_user: resolve the scope, then update the existing row or insert one
ban_user(user_id, project_name, reason, duration_hours) ==
    /\ LET found == ProjectsNamed(project_name)
           scoped == project_name # NoName /\ project_name # "global"
           banned_until == IF duration_hours # Null /\ duration_hours # 0
                             THEN now + duration_hours * SecondsPerHour ELSE Null
       IN  IF scoped /\ found = {}
             THEN UNCHANGED bans
             ELSE \E pid \in (IF scoped THEN {p.id : p \in found} ELSE {Null}) :
                    LET existing == {b \in bans : b.user_id = user_id
                                                  /\ b.project_id = pid}
                    IN  IF existing # {}
                          THEN /\ Cardinality(existing) = 1
                               /\ bans' = {IF b \in existing
                                             THEN [b EXCEPT !.banned_until = banned_until,
                                                            !.reason = reason]
                                             ELSE b : b \in bans}
                          ELSE /\ NextId(bans) <= MaxBanId
                               /\ bans' = bans \cup
                                    {[id |-> NextId(bans), user_id |-> user_id,
                                      project_id |-> pid, banned_until |-> banned_until,
                                      reason |-> reason]}
    /\ UNCHANGED <<projects, coupons, now, calls>>

\* ---- ban_user as the coroutine it is, one action per awaited statement
FinishBan(i, status) ==
    banning' = [banning EXCEPT ![i].pc = "done", ![i].status = status]

\* banned_until = (utcnow() + timedelta(hours=duration_hours)) if duration_hours else None
BannedUntil(duration_hours) ==
    IF duration_hours # Null /\ duration_hours # 0
      THEN now + duration_hours * SecondsPerHour ELSE Null

\* the call is made; without a project name, or with the name "global",
\* project_id stays None and banned_until is computed at once
ban_user_begin(i, user_id, project_name, reason, duration_hours) ==
    /\ banning[i].pc = "idle"
    /\ \A j \in BanIds : j < i => banning[j].pc # "idle"
    /\ LET scoped == project_name # NoName /\ project_name # "global"
       IN  banning' = [banning EXCEPT ![i] =
             [IdleBan EXCEPT !.pc = IF scoped THEN "project" ELSE "existing",
                             !.user_id = user_id,
                             !.project_name = project_name,
                             !.reason = reason,
                             !.duration_hours = duration_hours,
                             !.banned_until = IF scoped THEN Null
                                              ELSE BannedUntil(duration_hours)]]
    /\ UNCHANGED <<projects, coupons, bans, now, calls, adds, reply>>

\* project = await self.get_project(project_name); then banned_until
ban_user_project(i) ==
    /\ banning[i].pc = "project"
    /\ IF ProjectsNamed(banning[i].project_name) = {}
         THEN FinishBan(i, "NotFound")
         ELSE \E p \in ProjectsNamed(banning[i].project_name) :
                banning' = [banning EXCEPT ![i].pc = "existing",
                              ![i].project_id = p.id,
                              ![i].banned_until =
                                 BannedUntil(banning[i].duration_hours)]
    /\ UNCHANGED <<projects, coupons, bans, now, calls, adds, reply>>

\* select(Ban).filter_by(user_id, project_id), scalar_one_or_none()
ban_user_existing(i) ==
    /\ banning[i].pc = "existing"
    /\ LET rows == {b \in bans : /\ b.user_id = banning[i].user_id
                                 /\ b.project_id = banning[i].project_id}
       IN  IF Cardinality(rows) > 1
             THEN FinishBan(i, "MultipleResultsFound")
             ELSE banning' = [banning EXCEPT ![i].pc = "commit",
                                ![i].existing_ban =
                                   IF rows = {} THEN Null
                                   ELSE (CHOOSE b \in rows : TRUE).id]
    /\ UNCHANGED <<projects, coupons, bans, now, calls, adds, reply>>

\* UNIQUE(user_id, project_id): SQLite takes NULLs for distinct, so only a
\* scoped pair can collide
BanCollision(user_id, project_id) ==
    /\ project_id # Null
    /\ \E b \in bans : b.user_id = user_id /\ b.project_id = project_id

\* await session.commit(): the UPDATE of the loaded row by its id, or the
\* INSERT of the new row
ban_user_commit(i) ==
    /\ banning[i].pc = "commit"
    /\ LET c == banning[i]
       IN  IF c.existing_ban # Null
             THEN IF \E b \in bans : b.id = c.existing_ban
                    THEN /\ bans' = {IF b.id = c.existing_ban
                                       THEN [b EXCEPT !.banned_until = c.banned_until,
                                                      !.reason = c.reason]
                                       ELSE b : b \in bans}
                         /\ FinishBan(i, "OK")
                    ELSE /\ UNCHANGED bans
                         /\ FinishBan(i, "StaleDataError")
             ELSE IF BanCollision(c.user_id, c.project_id)
                    THEN /\ UNCHANGED bans
                         /\ FinishBan(i, "IntegrityError")
                    ELSE /\ NextId(bans) <= MaxBanId
                         /\ bans' = bans \cup
                              {[id |-> NextId(bans), user_id |-> c.user_id,
                                project_id |-> c.project_id,
                                banned_until |-> c.banned_until,
                                reason |-> c.reason]}
                         /\ FinishBan(i, "OK")
    /\ UNCHANGED <<projects, coupons, now, calls, adds, reply>>

\* an unban that lifts every ban of the user, whatever its scope
unban_user_every_scope(user_id, project_name) ==
    /\ LET found == ProjectsNamed(project_name)
       IN  IF project_name # NoName /\ found = {}
             THEN UNCHANGED bans
             ELSE bans' = {b \in bans : b.user_id # user_id}
    /\ UNCHANGED <<projects, coupons, now, calls>>

\* unban_user: DELETE the rows of (user_id, project_id)
unban_user(user_id, project_name) ==
    /\ LET found == ProjectsNamed(project_name)
       IN  IF project_name # NoName /\ found = {}
             THEN UNCHANGED bans
             ELSE \E pid \in (IF project_name # NoName THEN {p.id : p \in found}
                              ELSE {Null}) :
                    bans' = {b \in bans : ~(b.user_id = user_id /\ b.project_id = pid)}
    /\ UNCHANGED <<projects, coupons, now, calls>>

\* a cleanup that spares the coupons expiring at this very moment
cleanup_expired_coupons_before ==
    /\ coupons' = {c \in coupons : ~(c.expiry_date # Null /\ c.expiry_date < now)}
    /\ UNCHANGED <<projects, bans, now, calls>>

\* a cleanup that deletes one expired coupon per run
cleanup_expired_coupons_one ==
    /\ LET expired == {c \in coupons : c.expiry_date # Null /\ c.expiry_date <= now}
       IN  coupons' = {c \in coupons :
                         c \notin expired \/ \E d \in expired : d.id < c.id}
    /\ UNCHANGED <<projects, bans, now, calls>>

\* cleanup_expired_coupons: DELETE ... WHERE expiry_date IS NOT NULL AND <= now
cleanup_expired_coupons ==
    /\ coupons' = {c \in coupons : ~(c.expiry_date # Null /\ c.expiry_date <= now)}
    /\ UNCHANGED <<projects, bans, now, calls>>

\* datetime.utcnow() moves on
Tick(d) ==
    /\ now' = now + d
    /\ UNCHANGED <<projects, coupons, bans, calls>>

\* ------------------------------------------------------------ claim_coupon
Finish(i, status, reason, code, expiry, hours, minutes) ==
    calls' = [calls EXCEPT ![i].pc = "done", ![i].status = status,
                           ![i].reason = reason, ![i].code = code,
                           ![i].expiry = expiry, ![i].hours = hours,
                           ![i].minutes = minutes]

\* the call is entered: current_time = datetime.utcnow()
claim_coupon_begin(i, user_id, project_name) ==
    /\ calls[i].pc = "idle"
    /\ \A j \in CallIds : j < i => calls[j].pc # "idle"
    /\ calls' = [calls EXCEPT ![i].pc = "project", ![i].user_id = user_id,
                              ![i].project_name = project_name,
                              ![i].current_time = now]
    /\ UNCHANGED <<projects, coupons, bans, now>>

\* select(Project).filter_by(name=project_name)
claim_coupon_project(i) ==
    /\ calls[i].pc = "project"
    /\ LET found == ProjectsNamed(calls[i].project_name)
       IN  IF found = {}
             THEN Finish(i, "NO_PROJECT", "", "", Null, 0, 0)
             ELSE \E p \in found :
                    calls' = [calls EXCEPT ![i].pc = "bans", ![i].project = p]
    /\ UNCHANGED <<projects, coupons, bans, now>>

\* the rows of ban_check_stmt
\* a ban lookup that leaves the global rows out
BanRows_scoped_only(user_id, project_id) ==
    {b \in bans : b.user_id = user_id /\ b.project_id = project_id}

BanRows(user_id, project_id) ==
    {b \in bans : b.user_id = user_id
                  /\ (b.project_id = project_id \/ b.project_id = Null)}

\* ban.banned_until is None or ban.banned_until > current_time
BanActive(b, current_time) ==
    b.banned_until = Null \/ b.banned_until > current_time

\* a ban check that deletes the user's run-out bans as it meets them
claim_coupon_bans_purging(i) ==
    /\ calls[i].pc = "bans"
    /\ LET c == calls[i]
           rows == {b \in bans : /\ b.user_id = c.user_id
                                 /\ (b.project_id = c.project.id \/ b.project_id = Null)}
           active == {b \in rows :
                        b.banned_until = Null \/ b.banned_until > c.current_time}
       IN  /\ bans' = bans \ (rows \ active)
           /\ IF active # {}
                THEN \E b \in active : Finish(i, "BANNED", b.reason, "", Null, 0, 0)
                ELSE IF ~c.project.is_claim_active
                  THEN Finish(i, "DISABLED", "", "", Null, 0, 0)
                  ELSE calls' = [calls EXCEPT ![i].pc = "last_claim"]
    /\ UNCHANGED <<projects, coupons, now>>

\* the two checks the other way round
claim_coupon_disabled_first(i) ==
    /\ calls[i].pc = "bans"
    /\ LET c == calls[i]
           active == {b \in bans : /\ b.user_id = c.user_id
                                   /\ (b.project_id = c.project.id \/ b.project_id = Null)
                                   /\ (b.banned_until = Null \/ b.banned_until > c.current_time)}
       IN  IF ~c.project.is_claim_active
             THEN Finish(i, "DISABLED", "", "", Null, 0, 0)
             ELSE IF active # {}
               THEN \E b \in active : Finish(i, "BANNED", b.reason, "", Null, 0, 0)
               ELSE calls' = [calls EXCEPT ![i].pc = "last_claim"]
    /\ UNCHANGED <<projects, coupons, bans, now>>

\* the ban check, then the is_claim_active check on the loaded project.
\* The rows come in no stated order: any active one may be the first met.
claim_coupon_bans(i) ==
    /\ calls[i].pc = "bans"
    /\ LET c == calls[i]
           active == {b \in BanRows(c.user_id, c.project.id) :
                        BanActive(b, c.current_time)}
       IN  IF active # {}
             THEN \E b \in active : Finish(i, "BANNED", b.reason, "", Null, 0, 0)
             ELSE IF ~c.project.is_claim_active
               THEN Finish(i, "DISABLED", "", "", Null, 0, 0)
               ELSE calls' = [calls EXCEPT ![i].pc = "last_claim"]
    /\ UNCHANGED <<projects, coupons, bans, now>>

\* SQLite orders NULL below every value
SqlLess(a, b) == (a = Null /\ b # Null) \/ (a # Null /\ b # Null /\ a < b)

\* last_claim_stmt: ORDER BY claimed_at DESC LIMIT 1 (ties in no stated order)
LastClaims(user_id, project_id) ==
    LET rows == {c \in coupons : c.claimed_by = user_id /\ c.project_id = project_id}
    IN  {c \in rows : \A d \in rows : ~SqlLess(c.claimed_at, d.claimed_at)}

\* last_claim.claimed_at + timedelta(hours=project.claim_cooldown_hours)
CooldownEnd(last_claim, project) ==
    last_claim.claimed_at + project.claim_cooldown_hours * SecondsPerHour

\* h, r = divmod(int(rem.total_seconds()), 3600)
RemHours(rem) == rem \div SecondsPerHour

\* the minutes of the whole remainder, hours included
RemMinutes_total(rem) == rem \div SecondsPerMinute

\* m, _ = divmod(r, 60)
RemMinutes(rem) == (rem % SecondsPerHour) \div SecondsPerMinute

claim_coupon_last_claim(i) ==
    /\ calls[i].pc = "last_claim"
    /\ LET c == calls[i]
           last == LastClaims(c.user_id, c.project.id)
       IN  IF last = {}
             THEN calls' = [calls EXCEPT ![i].pc = "claimable"]
             ELSE \E last_claim \in last :
                    IF /\ last_claim.claimed_at # Null
                       /\ c.current_time < CooldownEnd(last_claim, c.project)
                      THEN LET rem == CooldownEnd(last_claim, c.project) - c.current_time
                           IN  Finish(i, "COOLDOWN", "", last_claim.code, Null,
                                      RemHours(rem), RemMinutes(rem))
                      ELSE calls' = [calls EXCEPT ![i].pc = "claimable"]
    /\ UNCHANGED <<projects, coupons, bans, now>>

\* the WHERE clause of claimable_coupon_stmt
Claimable(project_id, current_time) ==
    {c \in coupons : /\ c.project_id = project_id
                     /\ c.is_claimed = FALSE
                     /\ (c.expiry_date = Null \/ c.expiry_date > current_time)}

\* .order_by(Coupon.expiry_date.asc()).limit(1) (ties in no stated order)
FirstByExpiry(rows) ==
    {c \in rows : \A d \in rows : ~SqlLess(d.expiry_date, c.expiry_date)}

\* a claim that believes the stock cache when it says the project is empty
claim_coupon_claimable_cached(i) ==
    /\ calls[i].pc = "claimable"
    /\ LET c == calls[i]
           first == FirstByExpiry(Claimable(c.project.id, c.current_time))
       IN  IF first = {} \/ stock_cache[c.project_name].stock = 0
             THEN Finish(i, "NO_STOCK", "", "", Null, 0, 0)
             ELSE \E coupon_to_claim \in first :
                    calls' = [calls EXCEPT ![i].pc = "commit",
                                           ![i].coupon = coupon_to_claim]
    /\ UNCHANGED <<projects, coupons, bans, now>>

claim_coupon_claimable(i) ==
    /\ calls[i].pc = "claimable"
    /\ LET c == calls[i]
           first == FirstByExpiry(Claimable(c.project.id, c.current_time))
       IN  IF first = {}
             THEN Finish(i, "NO_STOCK", "", "", Null, 0, 0)
             ELSE \E coupon_to_claim \in first :
                    calls' = [calls EXCEPT ![i].pc = "commit",
                                           ![i].coupon = coupon_to_claim]
    /\ UNCHANGED <<projects, coupons, bans, now>>

\* the three assignments to coupon_to_claim
\* a claim that records no claimant
MarkClaimed_no_claimant(row, user_id, current_time) ==
    [row EXCEPT !.is_claimed = TRUE, !.claimed_at = current_time]

MarkClaimed(row, user_id, current_time) ==
    [row EXCEPT !.is_claimed = TRUE, !.claimed_by = user_id,
                !.claimed_at = current_time]

\* leaving session.begin(): UPDATE coupons SET ... WHERE coupons.id = ?, COMMIT.
\* No row with that id: the flush raises (StaleDataError) out of claim_coupon.
claim_coupon_commit(i) ==
    /\ calls[i].pc = "commit"
    /\ LET c == calls[i]
           hit == {row \in coupons : row.id = c.coupon.id}
       IN  IF hit = {}
             THEN /\ Finish(i, "RAISED", "", "", Null, 0, 0)
                  /\ UNCHANGED coupons
             ELSE /\ coupons' = {IF row \in hit
                                   THEN MarkClaimed(row, c.user_id, c.current_time)
                                   ELSE row : row \in coupons}
                  /\ Finish(i, "SUCCESS", "", c.coupon.code, c.coupon.expiry_date, 0, 0)
    /\ UNCHANGED <<projects, bans, now>>

\* the coroutine returns (status, data) to its caller and its frame is gone
claim_coupon_return(i) ==
    /\ calls[i].pc = "done"
    /\ calls' = [calls EXCEPT ![i] = IdleCall]
    /\ UNCHANGED <<projects, coupons, bans, now>>

\* ------------------------------------------------------------ specifications
Batches == {<<"A">>, <<"B">>, <<"A", "B">>, <<"B", "A">>, <<"A", "A">>}

\* commands that write the projects and coupons tables
InventoryOp ==
    \/ \E name \in ProjectNames : create_project(name)
    \/ \E name \in ProjectNames : delete_project(name)
    \/ \E name \in ProjectNames, codes \in Batches, days \in ExpiryDays :
          add_coupons(name, codes, days)
    \/ cleanup_expired_coupons

\* commands that write project settings and the bans table
ModerationOp ==
    \/ \E name \in ProjectNames, value \in BOOLEAN :
          set_project_setting(name, "is_claim_active", value)
    \/ \E name \in ProjectNames, key \in SettingKeys \ {"is_claim_active", "name"},
          value \in CooldownValues : set_project_setting(name, key, value)
    \/ \E u \in Users, name \in ProjectNames \cup {NoName}, r \in Reasons,
          d \in DurationHours : ban_user(u, name, r, d)
    \/ \E u \in Users, name \in ProjectNames \cup {NoName} : unban_user(u, name)

\* a command runs to completion and uses up one unit of the budget
InventoryNext ==
    ops < MaxOps /\ ops' = ops + 1 /\ InventoryOp /\ UNCHANGED <<adds, reply, banning, stock_cache, fetches, host>>
ModerationNext ==
    ops < MaxOps /\ ops' = ops + 1 /\ ModerationOp /\ UNCHANGED <<adds, reply, banning, stock_cache, fetches, host>>

ClaimBegin ==
    /\ \E i \in CallIds, u \in Users, name \in ProjectNames :
          claim_coupon_begin(i, u, name)
    /\ UNCHANGED <<ops, adds, reply, banning, stock_cache, fetches, host>>

ClaimStep ==
    /\ \E i \in CallIds :
          \/ claim_coupon_project(i)
          \/ claim_coupon_bans(i)
          \/ claim_coupon_last_claim(i)
          \/ claim_coupon_claimable(i)
          \/ claim_coupon_commit(i)
    /\ UNCHANGED <<ops, adds, reply, banning, stock_cache, fetches, host>>

ClaimReturn ==
    (\E i \in CallIds : claim_coupon_return(i)) /\ UNCHANGED <<ops, adds, reply, banning, stock_cache, fetches, host>>

\* the clock, a day at a time
ClockNext ==
    /\ ops < MaxOps /\ ops' = ops + 1 /\ \E d \in DaySteps : Tick(d)
    /\ UNCHANGED <<adds, reply, banning, stock_cache, fetches, host>>

\* the clock, half a minute or a day at a time
FineClockNext ==
    /\ ops < MaxOps /\ ops' = ops + 1 /\ \E d \in TickSteps : Tick(d)
    /\ UNCHANGED <<adds, reply, banning, stock_cache, fetches, host>>

InFlight == \E i \in CallIds : calls[i].pc # "idle"

\* Claims interleaved at every await with each other, with the inventory
\* commands and with the clock.  A finished call keeps its result, so each
\* coroutine runs one claim.
Next ==
    \/ InventoryNext
    \/ ClockNext
    \/ ClaimBegin
    \/ ClaimStep

Spec == Init /\ [][Next]_vars

\* One call at a time and every command: nothing else runs while a claim is
\* in flight, and the caller takes the result before the next step.
SeqNext ==
    \/ ~InFlight /\ InventoryNext
    \/ ~InFlight /\ ModerationNext
    \/ ~InFlight /\ FineClockNext
    \/ ~InFlight /\ ClaimBegin
    \/ ClaimStep
    \/ ClaimReturn

SpecSeq == Init /\ [][SeqNext]_vars

\* the commands with their replies, each run to completion
AdminCreate ==
    /\ ops < MaxOps /\ ops' = ops + 1
    /\ \E name \in ProjectNames :
          create_project(name) /\ reply' = create_project_reply(name)
    /\ UNCHANGED <<adds, banning, stock_cache, fetches, host>>

AdminDelete ==
    /\ ops < MaxOps /\ ops' = ops + 1
    /\ \E name \in ProjectNames :
          delete_project(name) /\ reply' = delete_project_reply(name)
    /\ UNCHANGED <<adds, banning, stock_cache, fetches, host>>

AdminCleanup ==
    /\ ops < MaxOps /\ ops' = ops + 1
    /\ cleanup_expired_coupons /\ reply' = cleanup_expired_coupons_reply
    /\ UNCHANGED <<adds, banning, stock_cache, fetches, host>>

AdminStock ==
    /\ ops < MaxOps /\ ops' = ops + 1
    /\ \E name \in ProjectNames : reply' = get_stock_reply(name)
    /\ UNCHANGED <<projects, coupons, bans, now, calls, adds,
                   banning, stock_cache, fetches, host>>

AddBegin ==
    /\ ops < MaxOps /\ ops' = ops + 1
    /\ \E i \in AddIds, name \in ProjectNames, codes \in Batches,
          days \in ExpiryDays : add_coupons_begin(i, name, codes, days)
    /\ UNCHANGED <<banning, stock_cache, fetches, host>>

AddStep ==
    /\ \E i \in AddIds :
          \/ add_coupons_project(i)
          \/ add_coupons_existing(i)
          \/ add_coupons_commit(i)
    /\ UNCHANGED <<ops, banning, stock_cache, fetches, host>>

\* The inventory commands with their replies: add_coupons calls interleaved at
\* every await with each other and with the other commands, which run to
\* completion; no claim runs.  A finished call keeps its result.
AdminNext ==
    \/ AdminCreate
    \/ AdminDelete
    \/ AdminCleanup
    \/ ClockNext
    \/ AddBegin
    \/ AddStep

SpecAdmin == Init /\ [][AdminNext]_vars

\* ---- the moderation commands, ban_user interleaved at every await
Rest == <<adds, stock_cache, fetches, host>>

BanCreate ==
    /\ ops < MaxOps /\ ops' = ops + 1
    /\ \E name \in BanProjectNames :
          create_project(name) /\ reply' = create_project_reply(name)
    /\ UNCHANGED <<banning, Rest>>

BanUnban ==
    /\ ops < MaxOps /\ ops' = ops + 1
    /\ \E u \in Users, name \in BanProjectNames \cup {NoName} :
          unban_user(u, name) /\ reply' = unban_user_reply(u, name)
    /\ UNCHANGED <<banning, Rest>>

BanBegin ==
    /\ ops < MaxOps /\ ops' = ops + 1
    /\ \E i \in BanIds, u \in Users, name \in BanProjectNames \cup {NoName},
          r \in BanReasons, d \in DurationHours : ban_user_begin(i, u, name, r, d)
    /\ UNCHANGED <<stock_cache, fetches, host>>

BanStep ==
    /\ \E i \in BanIds :
          \/ ban_user_project(i)
          \/ ban_user_existing(i)
          \/ ban_user_commit(i)
    /\ UNCHANGED <<ops, stock_cache, fetches, host>>

BanNext ==
    \/ BanCreate
    \/ BanUnban
    \/ BanBegin
    \/ BanStep
    \/ ClockNext

SpecBan == Init /\ [][BanNext]_vars


\* get_stock reads the store and the clock and writes nothing: it is run on
\* every store of up to one coupon per code, each a row the commands above
\* can leave behind (a claimed row has its claimant and time, an unclaimed
\* row has neither; the project of a row may be gone)
StockRows(code, id) ==
    {[id |-> id, code |-> code, is_claimed |-> k, claimed_by |-> IF k THEN 1 ELSE Null,
      claimed_at |-> IF k THEN 0 ELSE Null, expiry_date |-> e, project_id |-> pid]
        : k \in BOOLEAN, e \in {Null, SecondsPerDay}, pid \in {1, 2}}

StockProjects ==
    {[id |-> 1, name |-> "P", is_claim_active |-> TRUE,
      claim_cooldown_hours |-> DefaultCooldown],
     [id |-> 2, name |-> "Q", is_claim_active |-> TRUE,
      claim_cooldown_hours |-> DefaultCooldown]}

StockBans ==
    {[id |-> 1, user_id |-> 1, project_id |-> Null, banned_until |-> Null,
      reason |-> "spam"]}

InitStock ==
    /\ projects \in SUBSET StockProjects
    /\ \E a \in SUBSET StockRows("A", 1), b \in SUBSET StockRows("B", 2) :
          /\ Cardinality(a) <= 1 /\ Cardinality(b) <= 1
          /\ coupons = a \cup b
    /\ bans \in SUBSET StockBans
    /\ now \in {0, SecondsPerDay}
    /\ ops = 0
    /\ calls = [i \in CallIds |-> IdleCall]
    /\ adds = [i \in AddIds |-> IdleAdd]
    /\ reply = NoReply
    /\ banning = [i \in BanIds |-> IdleBan]
    /\ stock_cache = [name \in ProjectNames |-> NoEntry]
    /\ fetches = [i \in FetchIds |-> IdleFetch]
    /\ HostInit

SpecStock == InitStock /\ [][AdminStock]_vars


\* cleanup_expired_coupons run again and again on each of these stores,
\* nothing else in between
SpecCleanup == InitStock /\ [][AdminCleanup]_vars

\* ---- unban and claim, one call at a time, over the ban tables that two
\* ban_user calls for user 1 leave behind: a global ban and a ban scoped to
\* project P, created in either order, each permanent or running out
BanTimes == {Null, SecondsPerDay, 2 * SecondsPerDay}

GlobalBans ==
    {[id |-> i, user_id |-> 1, project_id |-> Null, banned_until |-> t,
      reason |-> "spam"] : i \in BanIds, t \in BanTimes}

ScopedBans ==
    {[id |-> i, user_id |-> 1, project_id |-> 1, banned_until |-> t,
      reason |-> "abuse"] : i \in BanIds, t \in BanTimes}

InitBans ==
    /\ projects \in {P \in SUBSET StockProjects : \E p \in P : p.id = 1}
    /\ coupons = {}
    /\ \E g \in SUBSET GlobalBans, s \in SUBSET ScopedBans :
          /\ Cardinality(g) <= 1 /\ Cardinality(s) <= 1
          /\ \A a \in g, b \in s : a.id # b.id
          /\ bans = g \cup s
    /\ now = 0
    /\ ops = 0
    /\ calls = [i \in CallIds |-> IdleCall]
    /\ adds = [i \in AddIds |-> IdleAdd]
    /\ reply = NoReply
    /\ banning = [i \in BanIds |-> IdleBan]
    /\ stock_cache = [name \in ProjectNames |-> NoEntry]
    /\ fetches = [i \in FetchIds |-> IdleFetch]
    /\ HostInit

UnbanNext ==
    \/ ~InFlight /\ BanUnban
    \/ ~InFlight /\ ClockNext
    \/ ~InFlight /\ ClaimBegin
    \/ ClaimStep
    \/ ClaimReturn

SpecUnban == InitBans /\ [][UnbanNext]_vars

\* ---- the stock cache of the bot
\* a lookup that still serves an entry at the age of cache_duration
get_cached_stock_begin_late(i, project_name) ==
    /\ fetches[i].pc = "idle"
    /\ \A j \in FetchIds : j < i => fetches[j].pc # "idle"
    /\ LET e == stock_cache[project_name]
       IN  IF e # NoEntry /\ now - e.timestamp <= CacheDuration
             THEN fetches' = [fetches EXCEPT ![i] =
                    [pc |-> "done", project_name |-> project_name,
                     current_time |-> now, stock |-> e.stock,
                     read_at |-> e.read_at]]
             ELSE fetches' = [fetches EXCEPT ![i] =
                    [IdleFetch EXCEPT !.pc = "get_stock",
                                      !.project_name = project_name,
                                      !.current_time = now]]
    /\ UNCHANGED <<projects, coupons, bans, now, calls, adds, reply, banning,
                   stock_cache>>

\* get_cached_stock up to its await: current_time = time.time(), and the
\* cached stock is returned when current_time - timestamp < cache_duration
get_cached_stock_begin(i, project_name) ==
    /\ fetches[i].pc = "idle"
    /\ \A j \in FetchIds : j < i => fetches[j].pc # "idle"
    /\ LET e == stock_cache[project_name]
       IN  IF e # NoEntry /\ now - e.timestamp < CacheDuration
             THEN fetches' = [fetches EXCEPT ![i] =
                    [pc |-> "done", project_name |-> project_name,
                     current_time |-> now, stock |-> e.stock,
                     read_at |-> e.read_at]]
             ELSE fetches' = [fetches EXCEPT ![i] =
                    [IdleFetch EXCEPT !.pc = "get_stock",
                                      !.project_name = project_name,
                                      !.current_time = now]]
    /\ UNCHANGED <<projects, coupons, bans, now, calls, adds, reply, banning,
                   stock_cache>>

\* stock = await self.db_manager.get_stock(project_name): the store is read
get_cached_stock_get_stock(i) ==
    /\ fetches[i].pc = "get_stock"
    /\ fetches' = [fetches EXCEPT ![i].pc = "store",
                                  ![i].stock = get_stock(fetches[i].project_name),
                                  ![i].read_at = now]
    /\ UNCHANGED <<projects, coupons, bans, now, calls, adds, reply, banning,
                   stock_cache>>

\* the coroutine is resumed: a stock that is not None is cached under the
\* time taken on entry
get_cached_stock_store(i) ==
    /\ fetches[i].pc = "store"
    /\ LET f == fetches[i]
       IN  stock_cache' =
             IF f.stock # Null
               THEN [stock_cache EXCEPT ![f.project_name] =
                       [stock |-> f.stock, timestamp |-> f.current_time,
                        read_at |-> f.read_at]]
               ELSE stock_cache
    /\ fetches' = [fetches EXCEPT ![i].pc = "done"]
    /\ UNCHANGED <<projects, coupons, bans, now, calls, adds, reply, banning>>

\* the stock is handed to the caller and the frame is gone
get_cached_stock_return(i) ==
    /\ fetches[i].pc = "done"
    /\ fetches' = [fetches EXCEPT ![i] = IdleFetch]
    /\ UNCHANGED <<projects, coupons, bans, now, calls, adds, reply, banning,
                   stock_cache>>

FetchBegin ==
    /\ ops < MaxOps /\ ops' = ops + 1 /\ UNCHANGED host
    /\ \E i \in FetchIds, name \in ProjectNames : get_cached_stock_begin(i, name)

FetchStep ==
    /\ \E i \in FetchIds :
          \/ get_cached_stock_get_stock(i)
          \/ get_cached_stock_store(i)
    /\ UNCHANGED <<ops, host>>

FetchReturn ==
    (\E i \in FetchIds : get_cached_stock_return(i)) /\ UNCHANGED <<ops, host>>

\* the hourly task of the bot: the whole cache is cleared when the cleanup
\* deleted something
BotCleanup ==
    /\ ops < MaxOps /\ ops' = ops + 1
    /\ cleanup_expired_coupons /\ reply' = cleanup_expired_coupons_reply
    /\ stock_cache' = IF cleanup_expired_coupons_reply.value > 0
                        THEN [name \in ProjectNames |-> NoEntry]
                        ELSE stock_cache
    /\ UNCHANGED <<adds, banning, fetches, host>>

\* a claim, an add_coupons call or a stock lookup is under way
Busy ==
    \/ InFlight
    \/ \E i \in AddIds : adds[i].pc \notin {"idle", "done"}
    \/ \E i \in FetchIds : fetches[i].pc # "idle"

CacheRows ==
    {[id |-> 1, code |-> "A", is_claimed |-> FALSE, claimed_by |-> Null,
      claimed_at |-> Null, expiry_date |-> e, project_id |-> 1]
        : e \in {Null, CacheDuration}}

\* project P alone, with no coupon or with coupon A, which does not run out
\* or runs out a minute from now
InitCache ==
    /\ projects = {p \in StockProjects : p.name = "P"}
    /\ coupons \in {C \in SUBSET CacheRows : Cardinality(C) <= 1}
    /\ bans = {}
    /\ now = 0
    /\ ops = 0
    /\ calls = [i \in CallIds |-> IdleCall]
    /\ adds = [i \in AddIds |-> IdleAdd]
    /\ reply = NoReply
    /\ banning = [i \in BanIds |-> IdleBan]
    /\ stock_cache = [name \in ProjectNames |-> NoEntry]
    /\ fetches = [i \in FetchIds |-> IdleFetch]
    /\ HostInit

CacheBatches == {<<"A">>, <<"B">>}

CacheAddBegin ==
    /\ ops < MaxOps /\ ops' = ops + 1
    /\ \E i \in AddIds, name \in ProjectNames, codes \in CacheBatches :
          add_coupons_begin(i, name, codes, Null)
    /\ UNCHANGED <<banning, stock_cache, fetches, host>>

\* The claim and add commands and the cached stock lookup, one at a time,
\* the way their handlers run them (no handler touches stock_cache), with
\* the clock and the hourly cleanup in between.
CacheNext ==
    \/ ~Busy /\ FetchBegin
    \/ FetchStep
    \/ FetchReturn
    \/ ~Busy /\ BotCleanup
    \/ ~Busy /\ ClockNext
    \/ ~Busy /\ ClaimBegin
    \/ ClaimStep
    \/ ClaimReturn
    \/ ~Busy /\ CacheAddBegin
    \/ AddStep

SpecCache == InitCache /\ [][CacheNext]_vars

\* Cached stock lookups interleaved at every await with each other, with
\* the clock and with the hourly cleanup.
LookupBegin ==
    /\ \E i \in FetchIds, name \in ProjectNames : get_cached_stock_begin(i, name)
    /\ UNCHANGED <<ops, host>>

\* the clock, half a minute at a time
LookupClock ==
    /\ ops < MaxOps /\ ops' = ops + 1 /\ Tick(CacheDuration \div 2)
    /\ UNCHANGED <<adds, reply, banning, stock_cache, fetches, host>>

LookupNext ==
    \/ LookupBegin
    \/ FetchStep
    \/ FetchReturn
    \/ BotCleanup
    \/ LookupClock

SpecLookup == InitCache /\ [][LookupNext]_vars

\* ---- the settings command over a drawn store
AdminSetting ==
    /\ ops < MaxOps /\ ops' = ops + 1
    /\ \/ \E name \in ProjectNames, value \in BOOLEAN :
             /\ set_project_setting(name, "is_claim_active", value)
             /\ reply' = set_project_setting_reply(name, "is_claim_active", value)
       \/ \E name \in ProjectNames, key \in {"claim_cooldown_hours", "no_such_attr"},
             value \in CooldownValues :
             /\ set_project_setting(name, key, value)
             /\ reply' = set_project_setting_reply(name, key, value)
       \/ \E name \in ProjectNames, value \in ProjectNames :
             /\ set_project_setting(name, "name", value)
             /\ reply' = set_project_setting_reply(name, "name", value)
    /\ UNCHANGED <<banning, Rest>>

SpecSetting == InitStock /\ [][AdminSetting]_vars

\* ---- the claim command: claim_coupon, then the reply to the user
\* coupon_code = data: on SUCCESS data is the pair (code, expiry_date), and
\* the pair as it is goes on as the code.  A value handed on as a code is
\* written <<s>> for the string s and <<s, e>> for the pair.
SuccessKey(code, expiry) == <<code, expiry>>

\* cooldown_time, last_code = data: the second component is the code
CooldownKey(code) == <<code>>

\* select(Coupon).filter_by(code=code): the rows whose code is the value
\* given; no code equals a pair
get_coupon_details(code) == {c \in coupons : <<c.code>> = code}

\* User.claim after claim_coupon has returned: on SUCCESS and COOLDOWN the
\* coupon is looked up again and coupon.expiry_date read, which raises when
\* the lookup gave nothing (or when it could not be run at all), before
\* anything is sent; every other status is answered with its text.  The
\* error handler of the bot answers a raised exception with a fixed text.
claim_respond(i) ==
    /\ calls[i].pc = "done"
    /\ LET c == calls[i]
           key == IF c.status = "SUCCESS" THEN SuccessKey(c.code, c.expiry)
                  ELSE CooldownKey(c.code)
       IN  IF c.status \in {"SUCCESS", "COOLDOWN"}
             THEN IF get_coupon_details(key) = {}
                    THEN sent' = sent \cup
                           {[user_id |-> c.user_id, status |-> "raised", code |-> <<>>]}
                    ELSE sent' = sent \cup
                           {[user_id |-> c.user_id, status |-> c.status, code |-> key]}
             ELSE sent' = sent \cup
                    {[user_id |-> c.user_id,
                      status |-> IF c.status = "RAISED" THEN "raised" ELSE c.status,
                      code |-> <<>>]}
    /\ calls' = [calls EXCEPT ![i] = IdleCall]
    /\ UNCHANGED <<projects, coupons, bans, now>>

ClaimRespond ==
    /\ \E i \in CallIds : claim_respond(i)
    /\ UNCHANGED <<ops, adds, reply, banning, stock_cache, fetches,
                   project_cache, backups, loops, twin>>

\* one claim command after another on project P with at most one coupon,
\* and the clock
CommandNext ==
    \/ ~InFlight /\ ClaimBegin
    \/ ClaimStep
    \/ ClaimRespond
    \/ ~InFlight /\ ClockNext

SpecCommand == InitCache /\ [][CommandNext]_vars

\* ---- claim_coupon run twice from the same store and time, the second
\* time with other contents in project_cache and stock_cache
\* what stock_cache may hold: nothing, or for P a stock of 0 or of 2 cached
\* at time 0, whatever the store holds
TwinStockCaches ==
    {[name \in ProjectNames |-> NoEntry]} \cup
    {[name \in ProjectNames |->
        IF name = "P" THEN [stock |-> n, timestamp |-> 0, read_at |-> 0]
        ELSE NoEntry] : n \in {0, 2}}

\* what project_cache may hold (as the set of the names in the list)
TwinProjectCaches == {{}, {"P"}, {"Q"}}

\* The stores are those of InitStock in which no query of claim_coupon has
\* two candidates for its first row: which of them comes first is a matter
\* of the store, not of the caches.
InitTwin ==
    /\ projects \in SUBSET StockProjects
    /\ \E a \in SUBSET StockRows("A", 1), b \in SUBSET StockRows("B", 2) :
          /\ Cardinality(a) <= 1 /\ Cardinality(b) <= 1
          /\ coupons = a \cup b
    /\ bans \in SUBSET StockBans
    /\ now \in {0, SecondsPerDay}
    /\ \A pid \in 1..MaxProjectId :
          /\ Cardinality(FirstByExpiry(Claimable(pid, now))) <= 1
          /\ \A u \in Users : Cardinality(LastClaims(u, pid)) <= 1
    /\ ops = 0
    /\ calls = [i \in CallIds |-> IdleCall]
    /\ adds = [i \in AddIds |-> IdleAdd]
    /\ reply = NoReply
    /\ banning = [i \in BanIds |-> IdleBan]
    /\ stock_cache \in TwinStockCaches
    /\ fetches = [i \in FetchIds |-> IdleFetch]
    /\ project_cache \in TwinProjectCaches
    /\ backups = {}
    /\ loops = [j \in Jobs |-> "running"]
    /\ sent = {}
    /\ twin = [phase |-> 0, projects |-> projects, coupons |-> coupons,
               bans |-> bans]

\* the first run
TwinFirst ==
    /\ twin.phase = 0
    /\ \E u \in Users, name \in ProjectNames : claim_coupon_begin(1, u, name)
    /\ UNCHANGED <<ops, adds, reply, banning, stock_cache, fetches, host>>

\* the first run is over: its store is kept aside, the store it started
\* from is put back and the caches get other contents
TwinRestart ==
    /\ twin.phase = 0 /\ calls[1].pc = "done"
    /\ twin' = [phase |-> 1, projects |-> projects, coupons |-> coupons,
                bans |-> bans]
    /\ projects' = twin.projects /\ coupons' = twin.coupons /\ bans' = twin.bans
    /\ stock_cache' \in TwinStockCaches
    /\ project_cache' \in TwinProjectCaches
    /\ stock_cache' # stock_cache \/ project_cache' # project_cache
    /\ UNCHANGED <<now, ops, calls, adds, reply, banning, fetches,
                   backups, loops, sent>>

\* the second run: the same user and project
TwinSecond ==
    /\ twin.phase = 1
    /\ claim_coupon_begin(2, calls[1].user_id, calls[1].project_name)
    /\ UNCHANGED <<ops, adds, reply, banning, stock_cache, fetches, host>>

TwinNext ==
    \/ TwinFirst
    \/ ClaimStep
    \/ TwinRestart
    \/ TwinSecond

SpecTwin == InitTwin /\ [][TwinNext]_vars

\* ---- backup_database and the directory /app/backups
\* datetime.utcnow().strftime('%Y%m%d_%H%M'): the time down to the minute
Stamp(t) == t \div SecondsPerMinute

\* the file coupon_bot_<stamp>.db as written at time t
Snapshot(t) == [name |-> Stamp(t), mtime |-> t]

\* sorted(glob(...), key=os.path.getmtime)[-5:]: the files that are not
\* before any file left out (files of one mtime in no stated order)
Newest(files) ==
    {keep \in SUBSET files :
        /\ Cardinality(keep) = KeptBackups
        /\ \A f \in keep, g \in files \ keep : g.mtime <= f.mtime}

\* backup_database.  os.makedirs is outside the try and may raise (outcome
\* "raised").  Inside the try the backup either raises, which is logged and
\* gives False, or has written the file at backup_path, a new file or over
\* the file of that name; then, with more than 5 files, all but the 5
\* newest are removed, except those whose os.remove raises OSError, which
\* is logged; True is returned.
backup_database(outcome) ==
    /\ IF outcome # "True"
         THEN UNCHANGED backups
         ELSE LET written == {f \in backups : f.name # Stamp(now)}
                                \cup {Snapshot(now)}
              IN  IF Cardinality(written) > KeptBackups
                    THEN \E keep \in Newest(written) :
                            \E stuck \in SUBSET (written \ keep) :
                               backups' = keep \cup stuck
                    ELSE backups' = written
    /\ UNCHANGED <<projects, coupons, bans, now, calls>>

backup_database_reply(outcome) ==
    [op |-> IF outcome = "raised" THEN "backup_database: OSError"
            ELSE "backup_database",
     name |-> NoName, key |-> "", ok |-> (outcome = "True"), value |-> Null]

BackupOutcomes == {"True", "False", "raised"}

Backup ==
    /\ ops < MaxOps /\ ops' = ops + 1
    /\ \E outcome \in BackupOutcomes :
          backup_database(outcome) /\ reply' = backup_database_reply(outcome)
    /\ UNCHANGED <<adds, banning, stock_cache, fetches,
                   project_cache, loops, sent, twin>>

\* the directory holds up to 5 snapshots of the minutes 0 to 4, and it is
\* minute 5
InitBackup ==
    /\ projects = {}
    /\ coupons = {}
    /\ bans = {}
    /\ now = KeptBackups * SecondsPerMinute
    /\ ops = 0
    /\ calls = [i \in CallIds |-> IdleCall]
    /\ adds = [i \in AddIds |-> IdleAdd]
    /\ reply = NoReply
    /\ banning = [i \in BanIds |-> IdleBan]
    /\ stock_cache = [name \in ProjectNames |-> NoEntry]
    /\ fetches = [i \in FetchIds |-> IdleFetch]
    /\ project_cache = {}
    /\ backups \in SUBSET {Snapshot(m * SecondsPerMinute) : m \in 0..(KeptBackups - 1)}
    /\ loops = [j \in Jobs |-> "running"]
    /\ sent = {}
    /\ twin = NoTwin

\* backups called again and again, half a minute or more apart
BackupNext ==
    \/ Backup
    \/ LookupClock

SpecBackup == InitBackup /\ [][BackupNext]_vars

\* ---- the tasks.loop jobs.  A loop whose body lets an exception out calls
\* its error handler, if it has one, and ends: it is not run again.
\* what a tick of job j came to (ok: its work was done)
TickReply(j, ok) ==
    [op |-> j, name |-> NoName, key |-> "", ok |-> ok, value |-> Null]

\* get_all_project_names: the names of the projects (as a set)
get_all_project_names == {p.name : p \in projects}

\* update_project_cache: the list is replaced; an exception is logged
update_project_cache_tick(ok) ==
    /\ loops["update_project_cache"] = "running"
    /\ project_cache' = IF ok THEN get_all_project_names ELSE project_cache
    /\ reply' = TickReply("update_project_cache", ok)
    /\ UNCHANGED <<projects, coupons, bans, now, calls, stock_cache, backups, loops>>

\* cleanup_expired_coupons of the bot: the cleanup, and the cache cleared
\* when it deleted something; an exception is logged
cleanup_expired_coupons_tick(ok) ==
    /\ loops["cleanup_expired_coupons"] = "running"
    /\ IF ok
         THEN /\ cleanup_expired_coupons
              /\ stock_cache' = IF cleanup_expired_coupons_reply.value > 0
                                  THEN [name \in ProjectNames |-> NoEntry]
                                  ELSE stock_cache
         ELSE UNCHANGED <<projects, coupons, bans, now, calls, stock_cache>>
    /\ reply' = TickReply("cleanup_expired_coupons", ok)
    /\ UNCHANGED <<project_cache, backups, loops>>

\* datetime.utcnow().hour
Hour(t) == (t \div SecondsPerHour) % HoursPerDay

\* auto_backup: in hour 3 backup_database is called and its result logged;
\* an exception out of it goes to on_backup_error, which logs it, and the
\* loop ends
auto_backup_tick(outcome) ==
    /\ loops["auto_backup"] = "running"
    /\ IF Hour(now) = BackupHour
         THEN /\ backup_database(outcome)
              /\ loops' = IF outcome = "raised"
                            THEN [loops EXCEPT !["auto_backup"] = "stopped"]
                            ELSE loops
              /\ reply' = TickReply("auto_backup", outcome = "True")
         ELSE /\ UNCHANGED <<projects, coupons, bans, now, calls, backups, loops>>
              /\ reply' = TickReply("auto_backup", TRUE)
    /\ UNCHANGED <<project_cache, stock_cache>>

JobTick ==
    /\ ops < MaxOps /\ ops' = ops + 1
    /\ \/ \E ok \in BOOLEAN : update_project_cache_tick(ok)
       \/ \E ok \in BOOLEAN : cleanup_expired_coupons_tick(ok)
       \/ \E outcome \in BackupOutcomes : auto_backup_tick(outcome)
    /\ UNCHANGED <<adds, banning, fetches, sent, twin>>

\* the clock, an hour at a time
HourClock ==
    /\ ops < MaxOps /\ ops' = ops + 1 /\ Tick(SecondsPerHour)
    /\ UNCHANGED <<adds, reply, banning, stock_cache, fetches, host>>

\* it is two o'clock: project P with at most one coupon, the loops started
InitJobs ==
    /\ projects = {p \in StockProjects : p.name = "P"}
    /\ coupons \in {C \in SUBSET CacheRows : Cardinality(C) <= 1}
    /\ bans = {}
    /\ now = (BackupHour - 1) * SecondsPerHour
    /\ ops = 0
    /\ calls = [i \in CallIds |-> IdleCall]
    /\ adds = [i \in AddIds |-> IdleAdd]
    /\ reply = NoReply
    /\ banning = [i \in BanIds |-> IdleBan]
    /\ stock_cache = [name \in ProjectNames |-> NoEntry]
    /\ fetches = [i \in FetchIds |-> IdleFetch]
    /\ HostInit

\* the jobs tick, the clock goes on, and claims are made one at a time
JobsNext ==
    \/ JobTick
    \/ HourClock
    \/ ~InFlight /\ ClaimBegin
    \/ ClaimStep
    \/ ClaimReturn

SpecJobs == InitJobs /\ [][JobsNext]_vars

\* ------------------------------------------------------------------ claims
Done(i) == calls[i].pc = "done"
Succeeded(i) == Done(i) /\ calls[i].status = "SUCCESS"

\* C1: no two claim_coupon calls return SUCCESS carrying the same coupon code.
C1_NoDoubleIssue ==
    \A i, j \in CallIds :
        (i # j /\ Succeeded(i) /\ Succeeded(j)) => calls[i].code # calls[j].code

\* C2: two distinct users, neither banned nor in cooldown, claim concurrently
\* from an active project that holds exactly one unclaimed, unexpired coupon
\* (the project's creation and one add_coupons are all that has run, both
\* calls found the project, the coupon has been taken): exactly one call
\* returns SUCCESS and the other NO_STOCK.
C2_OneWinner ==
    \A i, j \in CallIds :
        (/\ i # j /\ Done(i) /\ Done(j)
         /\ calls[i].user_id # calls[j].user_id
         /\ ops = 2 /\ bans = {}
         /\ \E p \in projects, c \in coupons :
              /\ projects = {p} /\ coupons = {c}
              /\ p.is_claim_active /\ c.project_id = p.id
              /\ c.expiry_date = Null /\ c.is_claimed
              /\ calls[i].project = p /\ calls[j].project = p)
        => {calls[i].status, calls[j].status} = {"SUCCESS", "NO_STOCK"}

\* C3: two SUCCESS outcomes of one user in one project whose
\* claim_cooldown_hours stayed at c carry claim timestamps at least c hours
\* apart.
C3_CooldownBetweenSuccesses ==
    \A i, j \in CallIds :
        (/\ i # j /\ Succeeded(i) /\ Succeeded(j)
         /\ calls[i].user_id = calls[j].user_id
         /\ calls[i].project = calls[j].project
         /\ calls[i].current_time <= calls[j].current_time)
        => calls[j].current_time - calls[i].current_time
             >= calls[i].project.claim_cooldown_hours * SecondsPerHour

\* C9: a coupon that is claimed stays claimed, by the same user at the same
\* time, for as long as its row exists.
C9_ClaimedOnce ==
    [][\A c \in coupons : c.is_claimed =>
          \A d \in coupons' : d.id = c.id =>
              /\ d.is_claimed
              /\ d.claimed_by = c.claimed_by
              /\ d.claimed_at = c.claimed_at]_vars

\* C10: in every state of the store a claimed coupon has a claimant and a
\* claim time, and an unclaimed coupon has neither.
C10_ClaimFieldsAgree ==
    \A c \in coupons :
        /\ c.is_claimed => (c.claimed_by # Null /\ c.claimed_at # Null)
        /\ ~c.is_claimed => (c.claimed_by = Null /\ c.claimed_at = Null)

C10_Witness ==
    /\ \E c \in coupons : c.is_claimed
    /\ \E c \in coupons : ~c.is_claimed
    /\ \E i \in CallIds : Succeeded(i)

\* the step in which call i returns
Finishes(i) == calls[i].pc \notin {"idle", "done"} /\ calls'[i].pc = "done"

\* C8: a SUCCESS claim changes exactly one coupon, one of the project that
\* was unclaimed and unexpired, marking it claimed by the caller at the
\* call's time; projects, bans and the other coupons stay as they are and
\* the code and expiry returned are that coupon's.
C8_SuccessFrame ==
    [][\A i \in CallIds :
          (Finishes(i) /\ calls'[i].status = "SUCCESS") =>
              \E c \in coupons :
                  /\ c.project_id = calls[i].project.id
                  /\ ~c.is_claimed
                  /\ (c.expiry_date = Null \/ c.expiry_date > calls[i].current_time)
                  /\ coupons' = (coupons \ {c}) \cup
                       {[c EXCEPT !.is_claimed = TRUE,
                                  !.claimed_by = calls[i].user_id,
                                  !.claimed_at = calls[i].current_time]}
                  /\ projects' = projects
                  /\ bans' = bans
                  /\ calls'[i].code = c.code
                  /\ calls'[i].expiry = c.expiry_date]_vars

\* the states of section 4.4, read off the store
C4_Banned(u, p, t) ==
    \E b \in bans : /\ b.user_id = u
                    /\ (b.project_id = Null \/ b.project_id = p.id)
                    /\ (b.banned_until = Null \/ b.banned_until > t)

C4_InCooldown(u, p, t) ==
    \E c \in coupons : /\ c.claimed_by = u /\ c.project_id = p.id
                       /\ c.claimed_at # Null
                       /\ t < c.claimed_at + p.claim_cooldown_hours * SecondsPerHour

C4_InStock(p, t) ==
    \E c \in coupons : /\ c.project_id = p.id /\ ~c.is_claimed
                       /\ (c.expiry_date = Null \/ c.expiry_date > t)

C4_Expected(u, name, t) ==
    IF \A p \in projects : p.name # name THEN "NO_PROJECT"
    ELSE LET p == CHOOSE q \in projects : q.name = name
         IN  IF C4_Banned(u, p, t) THEN "BANNED"
             ELSE IF ~p.is_claim_active THEN "DISABLED"
             ELSE IF C4_InCooldown(u, p, t) THEN "COOLDOWN"
             ELSE IF ~C4_InStock(p, t) THEN "NO_STOCK"
             ELSE "SUCCESS"

\* C4: a claim returns the first that applies of NO_PROJECT, BANNED,
\* DISABLED, COOLDOWN, NO_STOCK, SUCCESS, in this order.
C4_CheckOrder ==
    [][\A i \in CallIds : Finishes(i) =>
          calls'[i].status =
            C4_Expected(calls[i].user_id, calls[i].project_name,
                        calls[i].current_time)]_vars

\* a banned user is told BANNED although the project is disabled, the user
\* is in cooldown and nothing is in stock
C4_Witness ==
    \E i \in CallIds, p \in projects :
        /\ Done(i) /\ calls[i].status = "BANNED"
        /\ p.name = calls[i].project_name
        /\ ~p.is_claim_active
        /\ C4_InCooldown(calls[i].user_id, p, calls[i].current_time)
        /\ ~C4_InStock(p, calls[i].current_time)

\* C5: a claim on an existing project returns BANNED exactly when the user
\* has a ban row, global or scoped to the project, whose banned_until is
\* null or after now; a ban that has run out never gives BANNED.
C5_BanDecides ==
    [][\A i \in CallIds :
          (Finishes(i) /\ calls'[i].status # "NO_PROJECT") =>
              (calls'[i].status = "BANNED" <=>
                 \E b \in bans :
                    /\ b.user_id = calls[i].user_id
                    /\ (b.project_id = Null \/ b.project_id = calls[i].project.id)
                    /\ (b.banned_until = Null \/ b.banned_until > calls[i].current_time))]_vars

\* BANNED from a global ban alone
C5_Witness ==
    \E i \in CallIds :
        /\ Done(i) /\ calls[i].status = "BANNED"
        /\ \E b \in bans : b.user_id = calls[i].user_id /\ b.project_id = Null
        /\ \A b \in bans : b.project_id = Null

\* the user's latest claims in the project of call i
C6_Latest(i) ==
    LET mine == {c \in coupons : /\ c.claimed_by = calls[i].user_id
                                 /\ c.project_id = calls[i].project.id}
    IN  {c \in mine : \A d \in mine : d.claimed_at <= c.claimed_at}

\* the case of C6: the user holds a claim in the active project, whose
\* cooldown is positive, and is not banned
C6_Case(i) ==
    /\ Finishes(i)
    /\ calls[i].project \in projects
    /\ calls[i].project.is_claim_active
    /\ calls[i].project.claim_cooldown_hours > 0
    /\ ~C4_Banned(calls[i].user_id, calls[i].project, calls[i].current_time)
    /\ C6_Latest(i) # {}

C6_Body(i, exact) ==
    \E l \in C6_Latest(i) :
        LET end == l.claimed_at
                     + calls[i].project.claim_cooldown_hours * SecondsPerHour
            rem == end - calls[i].current_time
            told == calls'[i].hours * SecondsPerHour
                      + calls'[i].minutes * SecondsPerMinute
        IN  IF calls[i].current_time < end
              THEN /\ calls'[i].status = "COOLDOWN"
                   /\ calls'[i].code \in {x.code : x \in C6_Latest(i)}
                   /\ IF exact THEN told = rem
                      ELSE /\ told = rem - (rem % SecondsPerMinute)
                           /\ calls'[i].minutes \in 0..59
              ELSE /\ calls'[i].status # "COOLDOWN"
                   /\ C4_InStock(calls[i].project, calls[i].current_time)
                        => calls'[i].status = "SUCCESS"

\* C6 as stated: before claimed_at + c hours a further claim returns
\* COOLDOWN with the claimed code and a remaining time of exactly
\* claimed_at + c - now; from then on it is not COOLDOWN.
C6_Original ==
    [][\A i \in CallIds : C6_Case(i) => C6_Body(i, TRUE)]_vars

\* C6 amended: the remaining time told is claimed_at + c - now rounded down
\* to whole minutes, as hours and minutes below 60.
C6_CooldownRemaining ==
    [][\A i \in CallIds : C6_Case(i) => C6_Body(i, FALSE)]_vars

\* COOLDOWN told at a time that is not a whole number of minutes before the end
C6_Witness ==
    \E i \in CallIds, l \in coupons :
        /\ Done(i) /\ calls[i].status = "COOLDOWN"
        /\ l.claimed_by = calls[i].user_id /\ l.code = calls[i].code
        /\ (l.claimed_at + calls[i].project.claim_cooldown_hours * SecondsPerHour
              - calls[i].current_time) % SecondsPerMinute # 0

\* C7: the coupon a SUCCESS assigns has the earliest expiry_date among the
\* project's eligible coupons, one without expiry only when none has one.
C7_SoonestExpiryFirst ==
    [][\A i \in CallIds :
          (Finishes(i) /\ calls'[i].status = "SUCCESS") =>
              \A d \in coupons :
                  (/\ d.project_id = calls[i].project.id /\ ~d.is_claimed
                   /\ (d.expiry_date = Null \/ d.expiry_date > calls[i].current_time))
                  => /\ calls'[i].expiry = Null => d.expiry_date = Null
                     /\ (calls'[i].expiry # Null /\ d.expiry_date # Null)
                          => calls'[i].expiry <= d.expiry_date]_vars

\* C11: a delete_project of an existing project removes it with every coupon
\* and every scoped ban of its id and leaves the global bans, the other
\* projects and their coupons and bans as they are; of a missing name it
\* fails and changes nothing.
C11_DeleteCascades ==
    [][\A name \in ProjectNames :
          (ops' = ops + 1 /\ delete_project(name)) =>
              IF \E p \in projects : p.name = name
                THEN \E p \in projects :
                        /\ p.name = name
                        /\ delete_project_reply(name).ok
                        /\ projects' = projects \ {p}
                        /\ coupons' = {c \in coupons : c.project_id # p.id}
                        /\ bans' = {b \in bans : b.project_id # p.id}
                ELSE /\ ~delete_project_reply(name).ok
                     /\ projects' = projects
                     /\ coupons' = coupons
                     /\ bans' = bans]_vars

\* C12: every coupon's project_id and every non-null ban project_id is the
\* id of a project of the store.
C12_NoOrphans ==
    /\ \A c \in coupons : \E p \in projects : p.id = c.project_id
    /\ \A b \in bans : b.project_id # Null => \E p \in projects : p.id = b.project_id

\* the step in which add_coupons call i ends
AddFinishes(i) == adds[i].pc \notin {"idle", "done"} /\ adds'[i].pc = "done"

Elements(seq) == {seq[k] : k \in 1..Len(seq)}

StoredCodes == {c.code : c \in coupons}

\* C13: add_coupons on an existing project inserts each distinct code of
\* the input that is in no coupon of the store exactly once and reports
\* inserted = the number of these codes, duplicates = the length of the
\* input minus inserted, insertedCodes = these codes.
C13_AddCounts ==
    [][\A i \in AddIds :
          (AddFinishes(i) /\ adds'[i].status # "None") =>
              LET a == adds'[i]
                  wanted == Elements(a.codes) \ StoredCodes
              IN  /\ a.status = "OK"
                  /\ a.inserted = Cardinality(wanted)
                  /\ a.duplicates = Len(a.codes) - a.inserted
                  /\ Elements(a.insertedCodes) = wanted
                  /\ Len(a.insertedCodes) = a.inserted
                  /\ \A code \in wanted :
                        Cardinality({c \in coupons' : c.code = code}) = 1]_vars

\* C14: no two coupons of the store have the same code, whatever their
\* projects and however the add_coupons calls interleave.
C14_CodesUnique ==
    \A c, d \in coupons : c.code = d.code => c.id = d.id

\* two calls for different projects ran at once with a code in common: one
\* inserted it, the other was refused
C14_Witness ==
    \E i, j \in AddIds :
        /\ adds[i].pc = "done" /\ adds[i].status = "OK"
        /\ adds[j].pc = "done" /\ adds[j].status = "IntegrityError"
        /\ ~HasRepeat(adds[j].new_coupons)
        /\ adds[i].project.id # adds[j].project.id
        /\ Elements(adds[i].new_coupons) \cap Elements(adds[j].new_coupons) # {}

\* C15: the commit of an add_coupons call that fails leaves in the store no
\* code of the call that was not there before; one that succeeds leaves all
\* the new codes of the call in the store.
C15_AllOrNothing ==
    [][\A i \in AddIds :
          (adds[i].pc = "commit" /\ adds'[i].pc = "done") =>
              LET after == {c.code : c \in coupons'}
              IN  IF adds'[i].status = "OK"
                    THEN Elements(adds[i].new_coupons) \subseteq after
                    ELSE (Elements(adds[i].codes) \cap after) \subseteq StoredCodes]_vars

\* a batch of two new codes was refused for one of them, taken by a call
\* running at the same time, and the other code is not in the store
C15_Witness ==
    \E i \in AddIds :
        /\ adds[i].pc = "done" /\ adds[i].status = "IntegrityError"
        /\ ~HasRepeat(adds[i].new_coupons)
        /\ Elements(adds[i].new_coupons) \ StoredCodes # {}

\* C16: a unique-constraint collision ends the operation with a failure
\* value, never with an exception: create_project replies, and no
\* add_coupons call ends in IntegrityError.
C16_CollisionsReturned ==
    /\ reply.op = "create_project" => reply.ok \in BOOLEAN
    /\ \A i \in AddIds : adds[i].pc = "done" => adds[i].status # "IntegrityError"

\* the outcomes a claim may hand to its caller
Outcomes ==
    {"NO_PROJECT", "BANNED", "DISABLED", "COOLDOWN", "NO_STOCK", "SUCCESS", "ERROR"}

\* C17: a claim in which the storage engine fails, a selected row that
\* vanished included, ends with the ERROR outcome and not with an
\* exception: every finished call holds one of the outcomes.
C17_ErrorOutcome ==
    \A i \in CallIds : Done(i) => calls[i].status \in Outcomes

\* C18: with cleanup_expired_coupons running between the steps of claims,
\* every claim ends with one of the outcomes, and the coupon of a SUCCESS
\* is a row of the store, the one the claim selected, when the claim commits.
C18_CleanupSafe ==
    [][\A i \in CallIds :
          Finishes(i) =>
              /\ calls'[i].status \in Outcomes
              /\ calls'[i].status = "SUCCESS" =>
                    \E c \in coupons : /\ c.id = calls[i].coupon.id
                                       /\ c.code = calls'[i].code]_vars

\* C19: a step of a claim that does not end it with SUCCESS writes nothing:
\* a claim that returns NO_PROJECT, BANNED, DISABLED, COOLDOWN or NO_STOCK
\* leaves every project, coupon and ban as it was.
C19_RefusalWritesNothing ==
    [][\A i \in CallIds :
          (calls'[i] # calls[i]
             /\ ~(calls'[i].pc = "done" /\ calls'[i].status = "SUCCESS")) =>
              /\ projects' = projects
              /\ coupons' = coupons
              /\ bans' = bans
              /\ calls'[i].pc = "done" =>
                    calls'[i].status \in
                      {"NO_PROJECT", "BANNED", "DISABLED", "COOLDOWN", "NO_STOCK"}]_vars

\* a COOLDOWN was returned over a store with projects, coupons and bans
C19_Witness ==
    \E i \in CallIds :
        /\ Done(i) /\ calls[i].status = "COOLDOWN"
        /\ projects # {} /\ coupons # {} /\ bans # {}

\* C20: get_stock of an existing project is the number of its coupons less
\* those that are claimed or expired; of a missing project it is not-found.
C20_StockCount ==
    [][(reply' # reply /\ reply'.op = "get_stock") =>
          IF \E p \in projects : p.name = reply'.name
            THEN \E p \in projects :
                    /\ p.name = reply'.name
                    /\ reply'.ok
                    /\ reply'.value =
                         Cardinality({c \in coupons : c.project_id = p.id})
                         - Cardinality({c \in coupons :
                              /\ c.project_id = p.id
                              /\ (c.is_claimed
                                    \/ (c.expiry_date # Null /\ c.expiry_date <= now))})
            ELSE ~reply'.ok /\ reply'.value = Null]_vars

\* stock 1 told for a project with a claimed coupon and an unclaimed one
C20_Witness ==
    \E p \in projects :
        /\ reply.op = "get_stock" /\ reply.name = p.name /\ reply.value = 1
        /\ \E c \in coupons : c.project_id = p.id /\ c.is_claimed
        /\ \E c \in coupons : c.project_id = p.id /\ ~c.is_claimed

\* the step of a cleanup_expired_coupons run
CleanupRuns == ops' = ops + 1 /\ reply'.op = "cleanup_expired_coupons"

ExpiredNow == {c \in coupons : c.expiry_date # Null /\ c.expiry_date <= now}

\* C21: cleanup_expired_coupons deletes exactly the coupons whose
\* expiry_date is not null and not after now, claimed or not, returns their
\* number, and leaves the other coupons, the projects and the bans alone.
C21_CleanupExact ==
    [][CleanupRuns =>
          /\ coupons' = coupons \ ExpiredNow
          /\ reply'.ok /\ reply'.value = Cardinality(ExpiredNow)
          /\ projects' = projects
          /\ bans' = bans]_vars

\* a run deleted an expired coupon and left a claimed one, a project and a ban
C21_Witness ==
    /\ reply.op = "cleanup_expired_coupons" /\ reply.value >= 1
    /\ \E c \in coupons : c.is_claimed
    /\ projects # {} /\ bans # {}

\* C22: a run of cleanup_expired_coupons right after another, nothing added
\* and nothing newly expired in between, deletes 0 coupons and leaves the
\* store as the first run left it.
C22_CleanupIdempotent ==
    [][(CleanupRuns /\ reply.op = "cleanup_expired_coupons") =>
          /\ reply'.value = 0
          /\ coupons' = coupons
          /\ projects' = projects
          /\ bans' = bans]_vars

\* the second of two runs is over and deleted nothing
C22_Witness ==
    /\ ops = 2 /\ reply.op = "cleanup_expired_coupons" /\ reply.value = 0
    /\ coupons # {}

\* C23: in every reachable state there is at most one ban row per
\* (user_id, project_id) pair, the global scope (project_id null) counting as
\* one pair, also when two ban_user calls for the same pair run concurrently.
C23_OneBanPerPair ==
    \A a, b \in bans :
       (a.user_id = b.user_id /\ a.project_id = b.project_id) => a = b

BanFinishes(i) == banning[i].pc # "done" /\ banning'[i].pc = "done"

C24_Stored(c, project_id) ==
    \E b \in bans' :
       /\ b.user_id = c.user_id
       /\ b.project_id = project_id
       /\ b.reason = c.reason
       /\ IF c.duration_hours = Null
            THEN b.banned_until = Null
            ELSE /\ b.banned_until # Null
                 /\ b.banned_until <= now + c.duration_hours * SecondsPerHour

\* C24: a ban_user call that names an existing project, whatever the name,
\* stores a ban scoped to that project's id; a call without a project stores a
\* global ban; a call whose name does not resolve fails with not-found and
\* changes nothing; banned_until is now + duration when a duration is given
\* and null only when none is given.
C24_BanScope ==
    [][\A i \in BanIds :
          (BanFinishes(i) /\ banning'[i].status \in {"OK", "NotFound"}) =>
             LET c == banning[i]
             IN  IF c.project_name = NoName
                   THEN banning'[i].status = "OK" /\ C24_Stored(c, Null)
                 ELSE IF ProjectsNamed(c.project_name) = {}
                   THEN banning'[i].status = "NotFound" /\ bans' = bans
                 ELSE /\ banning'[i].status = "OK"
                      /\ \E p \in ProjectsNamed(c.project_name) :
                            C24_Stored(c, p.id)]_vars

\* a command step that is not the clock's, with unban_user's reply
UnbanRuns == ops' = ops + 1 /\ now' = now /\ reply'.op = "unban_user"

\* the rows of the pair the unban names
C25_Matching ==
    {b \in bans :
        /\ b.user_id = reply'.value
        /\ IF reply'.name = NoName
             THEN b.project_id = Null
             ELSE \E p \in ProjectsNamed(reply'.name) : b.project_id = p.id}

\* C25: unban_user(u, P) deletes exactly the ban row of (u, P's id) and
\* unban_user(u) exactly u's global row; every other ban row, u's ban in the
\* other scope included, stays as it is, so that a claim made afterwards is
\* BANNED exactly when an active ban remains; with no matching row the call
\* fails and changes nothing.
C25_UnbanExact ==
    [][/\ UnbanRuns =>
            /\ bans' = bans \ C25_Matching
            /\ reply'.ok = (C25_Matching # {})
            /\ projects' = projects /\ coupons' = coupons
       /\ \A i \in CallIds :
            (Finishes(i) /\ reply.op = "unban_user"
                         /\ calls'[i].status # "NO_PROJECT") =>
               (calls'[i].status = "BANNED" <=>
                  \E b \in bans :
                     /\ b.user_id = calls[i].user_id
                     /\ (b.project_id = Null \/ b.project_id = calls[i].project.id)
                     /\ BanActive(b, calls[i].current_time))]_vars

\* user 1's global ban was lifted, the ban scoped to P stayed, and the claim
\* made after that came back BANNED with the reason of the ban that stayed
C25_Witness ==
    /\ reply.op = "unban_user" /\ reply.ok
    /\ reply.name = NoName /\ reply.value = 1
    /\ Cardinality(bans) = 1
    /\ \E b \in bans : b.user_id = 1 /\ b.project_id = 1
    /\ \E i \in CallIds :
          /\ Done(i) /\ calls[i].status = "BANNED"
          /\ calls[i].user_id = 1 /\ calls[i].reason = "abuse"

\* ban a is at least as restrictive as ban b
C26_Outlasts(a, b) ==
    \/ a.banned_until = Null
    \/ b.banned_until # Null /\ a.banned_until >= b.banned_until

\* C26: when the user has an active global ban and an active ban scoped to
\* the claimed project, BANNED carries the reason of the more restrictive of
\* the two: the permanent one, else the one that runs out later.
C26_MostRestrictiveReason ==
    [][\A i \in CallIds :
          (Finishes(i) /\ calls'[i].status = "BANNED") =>
             \A g, s \in bans :
                (/\ g.user_id = calls[i].user_id /\ g.project_id = Null
                 /\ s.user_id = calls[i].user_id
                 /\ s.project_id = calls[i].project.id
                 /\ BanActive(g, calls[i].current_time)
                 /\ BanActive(s, calls[i].current_time)) =>
                   \E b \in {g, s} :
                      /\ C26_Outlasts(b, g) /\ C26_Outlasts(b, s)
                      /\ calls'[i].reason = b.reason]_vars

\* a command step with create_project's reply: not the clock's step and not
\* the entry of an add_coupons call
CreateRuns ==
    /\ ops' = ops + 1 /\ now' = now /\ adds' = adds
    /\ reply'.op = "create_project"

\* C27: create_project(name) fails and changes nothing when a project of
\* that name exists; otherwise it adds one project of that name with
\* is_claim_active true and claim_cooldown_hours 168; however the calls are
\* ordered, one project of a name exists after them and one call succeeded.
C27_CreateOnce ==
    [][CreateRuns =>
          /\ coupons' = coupons /\ bans' = bans
          /\ IF ProjectsNamed(reply'.name) # {}
               THEN ~reply'.ok /\ projects' = projects
               ELSE /\ reply'.ok
                    /\ \E p \in projects' \ projects :
                          /\ projects' = projects \cup {p}
                          /\ p.name = reply'.name
                          /\ p.is_claim_active
                          /\ p.claim_cooldown_hours = 168
          /\ \A p, q \in projects' : p.name = q.name => p = q]_vars

\* the second create_project of a name was refused
C27_Witness ==
    /\ reply.op = "create_project" /\ ~reply.ok
    /\ Cardinality(ProjectsNamed(reply.name)) = 1

SettingRuns == ops' = ops + 1 /\ reply'.key # ""

\* the projects table with the field key of project name set to value
C28_Set(name, key, value) ==
    {IF p.name # name THEN p
     ELSE IF key = "is_claim_active" THEN [p EXCEPT !.is_claim_active = value]
     ELSE [p EXCEPT !.claim_cooldown_hours = value] : p \in projects}

\* C28: set_project_setting changes the field key of the project name and
\* nothing else when key is is_claim_active or claim_cooldown_hours and the
\* project exists; for every other key and for a missing project it fails
\* and leaves the store as it was.
C28_SettingExact ==
    [][SettingRuns =>
          /\ coupons' = coupons /\ bans' = bans
          /\ IF ProjectsNamed(reply'.name) = {}
               THEN ~reply'.ok /\ projects' = projects
             ELSE IF reply'.key = "is_claim_active"
               THEN /\ reply'.ok
                    /\ \E value \in BOOLEAN :
                          projects' = C28_Set(reply'.name, reply'.key, value)
             ELSE IF reply'.key = "claim_cooldown_hours"
               THEN /\ reply'.ok
                    /\ \E value \in CooldownValues :
                          projects' = C28_Set(reply'.name, reply'.key, value)
             ELSE ~reply'.ok /\ projects' = projects]_vars

\* C29: when a claim that returned SUCCESS for project P is over, and when
\* an add_coupons call has inserted codes into P, the stock cache holds no
\* entry for P.
C29_CacheInvalidated ==
    [][/\ \A i \in CallIds :
            (calls[i].pc = "done" /\ calls[i].status = "SUCCESS"
                                  /\ calls'[i].pc = "idle") =>
               stock_cache'[calls[i].project_name] = NoEntry
       /\ \A i \in AddIds :
            (AddFinishes(i) /\ adds'[i].inserted > 0) =>
               stock_cache'[adds[i].project_name] = NoEntry]_vars

\* C30: get_cached_stock never returns a stock that was read from the store
\* 60 seconds or more before the call, and a not-found result (None) is
\* never in the cache.
C30_CacheFresh ==
    /\ \A i \in FetchIds :
          (fetches[i].pc = "done" /\ fetches[i].stock # Null) =>
             fetches[i].current_time - fetches[i].read_at < 60
    /\ \A name \in ProjectNames :
          stock_cache[name].stock = Null => stock_cache[name] = NoEntry

\* one lookup was served from the cache a stock read 30 seconds before it,
\* and a later lookup, which met the entry at 60 seconds or more, has read
\* the store and is about to replace the entry
C30_Witness ==
    \E i, j \in FetchIds :
       /\ fetches[i].pc = "done" /\ fetches[i].stock # Null
       /\ fetches[i].current_time - fetches[i].read_at = 30
       /\ fetches[j].pc = "store"
       /\ stock_cache[fetches[j].project_name] # NoEntry
       /\ fetches[j].current_time
             - stock_cache[fetches[j].project_name].timestamp >= 60

\* C35: a project that has just been created has no coupons, hence stock 0
\* and nobody in cooldown, and no scoped bans: nothing left from a project
\* deleted before is attributed to it.
C35_FreshProject ==
    [][\A p \in projects' \ projects :
          (\A q \in projects : q.id # p.id) =>
             /\ \A c \in coupons' : c.project_id # p.id
             /\ \A b \in bans' : b.project_id # p.id]_vars

\* C34: when the claim command's call to claim_coupon has marked a coupon as
\* claimed for the invoking user (SUCCESS), the command sends that user the
\* code of that coupon.
C34_CodeDelivered ==
    [][\A i \in CallIds :
          (calls[i].pc = "done" /\ calls[i].status = "SUCCESS"
                                /\ calls'[i].pc = "idle") =>
             \E m \in sent' :
                /\ m.user_id = calls[i].user_id
                /\ m.status = "SUCCESS"
                /\ m.code[1] = calls[i].code]_vars

\* what a call returned
C31_Outcome(i) ==
    <<calls[i].status, calls[i].reason, calls[i].code, calls[i].expiry,
      calls[i].hours, calls[i].minutes>>

BackupRuns ==
    /\ ops' = ops + 1 /\ now' = now
    /\ reply'.op = "backup_database"

TickFails ==
    /\ ops' = ops + 1 /\ now' = now
    /\ reply'.op \in Jobs /\ ~reply'.ok

====
